---- MODULE Spec2Model ----
(***************************************************************************)
(* Model of nuclei's proactor core (src/src/proactor.rs):                  *)
(*   - the process-wide slot  static mut PROACTOR: OnceCell<Proactor>,     *)
(*   - Proactor::get / with_config / wake / wait / backend,                *)
(*   - drive(future): the foreground poll loop and the blocking worker     *)
(*     closure  loop { let _ = p.wait(1, None); }.                         *)
(* Threads run operations one after another; a panic ends the thread.      *)
(* The backend (SysProactor) is external: the outcome of new(), wake()     *)
(* and wait() is a nondeterministic input.                                 *)
(***************************************************************************)
EXTENDS Integers, FiniteSets, Sequences, TLC

\* ---- bounds ----
\* threads that call into the module
NumThreads == 2
\* calls of public functions in a run, over all threads
MaxOps == 2
\* latest poll at which a driven future reports ready
MaxPolls == 2
\* threads of the blocking pool: a drive takes one for its worker and, unless
\* the worker is cancelled before it begins, never gives it back
MaxDrives == 1

\* ---- program constants ----
DefaultQueueLen == 2048
CustomQueueLen == 10
WorkerMaxEvents == 1

Threads == 1..NumThreads
\* The configurations handed to with_config: a queue length other than the default.
Configs == {CustomQueueLen}
\* readyAt of a computation that never reports ready
Never == -1
NeverReady == [readyAt |-> Never, value |-> 0]
\* The futures handed to drive: ready at the first poll, ready at the last poll
\* the bound allows (each with its own value), or never ready.
Futures == {[readyAt |-> n, value |-> 40 + n] : n \in {1, MaxPolls}} \cup {NeverReady}
Timeouts == {"None", "Some"}
BACKEND == "IoBackend"

\* An instance is identified by the order in which its backend was built.
NoProactor == [id |-> 0, cfg |-> 0]
NewProactor(n, q) == [id |-> n, cfg |-> q]

NoFuture == [readyAt |-> 0, value |-> 0]
NoWorker == [st |-> "none", p |-> NoProactor, max_events |-> 0, timeout |-> "None",
             last |-> "none"]
NoWaitCall == [max_event_size |-> 0, duration |-> "None", sent |-> <<0, "None">>, res |-> 0]

VARIABLES
    cellState,   \* OnceCell state: "incomplete" | "running" | "complete"
    PROACTOR,    \* value held by the OnceCell (NoProactor while empty)
    built,       \* number of SysProactor instances successfully constructed
    getBuilt,    \* how many of them were constructed by get()'s closure
    pc,          \* position of each thread
    op,          \* operation the thread is in (pc # "idle") or has completed
    started,     \* number of operations started so far, over all threads
    cfgArg,      \* config passed to the thread's with_config
    held,        \* the Proactor with_config has built and not yet set
    ret,         \* &'static Proactor last returned to the thread
    out,         \* integer result of the last wait (count, -1 = Err) or drive
    panicMsg,    \* message of the panic that ended the thread
    wakeRes,     \* what the backend answered to the thread's last wake: "ok" | "err"
    fut,         \* the future the thread is driving
    polls,       \* number of polls of that future
    worker,      \* the spawn_blocking task of the thread's most recent drive
    orphans,     \* workers of earlier drives that were never stopped
    newErr,      \* SysProactor::new answered Err to the thread's running operation
    waitCall,    \* last direct wait() of the thread: caller's arguments, what the backend received, what it answered
    selector,    \* what backend() last returned to the thread
    wakes,       \* wake callback invocations of the running drive loop
    dpolls,      \* polls of the worker handle by the running drive loop
    afterDrive,  \* the thread's with_config was called after a drive had started
    getRets,     \* every instance ever returned by get()
    wcRets       \* every <<instance, config>> ever returned by with_config()

vars == <<cellState, PROACTOR, built, getBuilt, pc, op, started, cfgArg, held, ret,
          out, panicMsg, wakeRes, fut, polls, worker, orphans,
          newErr,
          waitCall,
          selector,
          wakes,
          dpolls,
          afterDrive,
          getRets, wcRets>>

cellVars == <<cellState, PROACTOR, built, getBuilt>>

Init ==
    /\ cellState = "incomplete"
    /\ PROACTOR = NoProactor
    /\ built = 0
    /\ getBuilt = 0
    /\ pc = [t \in Threads |-> "idle"]
    /\ op = [t \in Threads |-> "none"]
    /\ started = 0
    /\ cfgArg = [t \in Threads |-> 0]
    /\ held = [t \in Threads |-> NoProactor]
    /\ ret = [t \in Threads |-> NoProactor]
    /\ out = [t \in Threads |-> 0]
    /\ panicMsg = [t \in Threads |-> "none"]
    /\ wakeRes = [t \in Threads |-> "none"]
    /\ fut = [t \in Threads |-> NoFuture]
    /\ polls = [t \in Threads |-> 0]
    /\ worker = [t \in Threads |-> NoWorker]
    /\ orphans = 0
    /\ newErr = [t \in Threads |-> FALSE]
    /\ waitCall = [t \in Threads |-> NoWaitCall]
    /\ selector = [t \in Threads |-> "none"]
    /\ wakes = [t \in Threads |-> 0]
    /\ dpolls = [t \in Threads |-> 0]
    /\ afterDrive = [t \in Threads |-> FALSE]
    /\ getRets = {}
    /\ wcRets = {}

\* ---- pure helpers ----

\* OnceCell::get_or_init: the caller runs the closure iff it wins the
\* INCOMPLETE -> RUNNING transition.
CanInitNoFastPath(s) == s # "running"
CanInitRacy(s) == s # "complete"
CanInit(s) == s = "incomplete"

\* OnceCell::set(p) on a cell that is not being initialized.
OnceCellSetOverride(s, cur, p) == [ok |-> TRUE, value |-> p]
OnceCellSet(s, cur, p) ==
    IF s = "complete" THEN [ok |-> FALSE, value |-> cur]
                      ELSE [ok |-> TRUE, value |-> p]

\* .map_err(..).unwrap() on the result of set: goes on iff Ok.
SetUnwrapIgnored(ok) == TRUE
SetUnwrap(ok) == ok

\* The configuration with_config hands to SysProactor::new.
WithConfigDefault(config) == DefaultQueueLen
WithConfigCfg(config) == config

\* line 57: self.0.wait(max_event_size, duration) hands both arguments on as
\* they are, and its io::Result is the value of the function (Err is -1).
WaitForward(max_event_size, duration) == <<max_event_size, duration>>
WaitResultSwallowed(r) == IF r < 0 THEN 0 ELSE r
WaitResult(r) == r

\* line 89: p.wait(1, None) in the worker closure, through Proactor::wait
WorkerWaitTimed(w) ==
    LET sent == WaitForward(WorkerMaxEvents, "Some") IN
    [w EXCEPT !.st = "in_wait", !.max_events = sent[1], !.timeout = sent[2], !.last = "none"]
WorkerWait(w) ==
    LET sent == WaitForward(WorkerMaxEvents, "None") IN
    [w EXCEPT !.st = "in_wait", !.max_events = sent[1], !.timeout = sent[2], !.last = "none"]

\* line 80, 88-90: the worker closure moves in p, the reference get() returned
SpawnWorkerOwn(p) ==
    [NoWorker EXCEPT !.st = "spawned", !.p = NewProactor(p.id + 1, DefaultQueueLen)]
SpawnWorker(p) == [NoWorker EXCEPT !.st = "spawned", !.p = p]

\* some drive has been called
DriveStarted == \E u \in Threads : op[u] = "drive" \/ worker[u].st # "none"

\* SysProactor::new(..).expect("cannot initialize IO backend"): goes on iff Ok.
InitPanic == "cannot initialize IO backend"
GetExpectSwallowed(ok) == TRUE
GetExpect(ok) == ok
WithConfigExpectSwallowed(ok) == TRUE
WithConfigExpect(ok) == ok

\* self.0.wake().expect("failed to wake thread"): goes on iff Ok.
WakeSwallowed(ok) == TRUE
WakeExpect(ok) == ok

\* The future given to drive: Pending until its readyAt-th poll.
PollFuture(f, k) ==
    IF f.readyAt # Never /\ k >= f.readyAt THEN [ready |-> TRUE, val |-> f.value]
                                           ELSE [ready |-> FALSE, val |-> 0]

\* if let Poll::Ready(val) = future.poll(cx) { return val; }
LoopExitAlways(r) == TRUE
LoopExit(r) == r.ready

\* let _ = p.wait(1, None); inside loop: whatever the outcome, loop again.
WorkerAfterWaitPropagate(outcome) == IF outcome = "err" THEN "dead" ELSE "loop_top"
WorkerAfterWait(outcome) == "loop_top"

\* line 95-99: a poll that is not Ready falls through to wake_by_ref, whatever
\* the worker has or has not seen.
AfterPendingIfEvent(w) == IF w.last = "none" THEN "d_driver" ELSE "d_wake"
AfterPending(w) == "d_wake"

\* let _ = driver.as_mut().poll(cx); the result is ignored, the loop goes on.
DriverPollAwait(w) == IF w.st = "dead" THEN "d_poll" ELSE "d_driver"
DriverPollStopOnErr(w) == IF w.last = "err" THEN "idle" ELSE "d_poll"
DriverPollNext(w) == "d_poll"

\* ---- Proactor::get ----

Panic(t, msg) ==
    /\ pc' = [pc EXCEPT ![t] = "panicked"]
    /\ panicMsg' = [panicMsg EXCEPT ![t] = msg]

\* A thread starts its next operation; the results of the previous one are gone.
StartOp(t, name, config, f) ==
    /\ pc[t] = "idle"
    /\ started < MaxOps
    /\ started' = started + 1
    /\ op' = [op EXCEPT ![t] = name]
    /\ cfgArg' = [cfgArg EXCEPT ![t] = config]
    /\ fut' = [fut EXCEPT ![t] = f]
    /\ polls' = [polls EXCEPT ![t] = 0]
    /\ wakes' = [wakes EXCEPT ![t] = 0]
    /\ dpolls' = [dpolls EXCEPT ![t] = 0]
    /\ afterDrive' = [afterDrive EXCEPT ![t] = name = "with_config" /\ DriveStarted]

\* get() has produced reference p on thread t, on behalf of operation who.
GetDone(t, p, who) ==
    /\ ret' = [ret EXCEPT ![t] = p]
    /\ getRets' = getRets \cup {p}
    /\ pc' = [pc EXCEPT ![t] = IF who = "drive" THEN "d_spawn" ELSE "idle"]

\* Entry into PROACTOR.get_or_init(..) on behalf of operation who.
GetEnter(t, who) ==
    IF CanInit(cellState)
    THEN /\ cellState' = "running"
         /\ pc' = [pc EXCEPT ![t] = "get_init"]
         /\ UNCHANGED <<PROACTOR, built, getBuilt, ret, getRets>>
    ELSE IF cellState = "complete"
    THEN /\ GetDone(t, PROACTOR, who)
         /\ UNCHANGED cellVars
    ELSE /\ pc' = [pc EXCEPT ![t] = "get_blocked"]
         /\ UNCHANGED <<cellVars, ret, getRets>>

Get(t) ==
    /\ StartOp(t, "get", 0, NoFuture)
    /\ GetEnter(t, "get")
    /\ out' = [out EXCEPT ![t] = 0]
    /\ wakeRes' = [wakeRes EXCEPT ![t] = "none"]
    /\ newErr' = [newErr EXCEPT ![t] = FALSE]
    /\ waitCall' = [waitCall EXCEPT ![t] = NoWaitCall]
    /\ selector' = [selector EXCEPT ![t] = "none"]
    /\ UNCHANGED <<held, panicMsg, worker, orphans, wcRets>>

\* The closure of get_or_init: SysProactor::new(default).expect(..)
GetInit(t) ==
    /\ pc[t] = "get_init"
    /\ \E ok \in BOOLEAN :
        /\ newErr' = [newErr EXCEPT ![t] = ~ok]
        /\ IF GetExpect(ok)
           THEN /\ built' = built + 1
                /\ getBuilt' = getBuilt + 1
                /\ PROACTOR' = NewProactor(built + 1, DefaultQueueLen)
                /\ cellState' = "complete"
                /\ GetDone(t, PROACTOR', op[t])
                /\ UNCHANGED panicMsg
           ELSE /\ cellState' = "incomplete"
                /\ Panic(t, InitPanic)
                /\ UNCHANGED <<PROACTOR, built, getBuilt, ret, getRets>>
    /\ UNCHANGED <<wakeRes, op, started, cfgArg, held, out, fut, polls, worker, orphans,
                   wcRets, waitCall, selector, wakes, dpolls, afterDrive>>

\* A caller that found the cell RUNNING resumes once the initializer is done.
GetResume(t) ==
    /\ pc[t] = "get_blocked"
    /\ cellState # "running"
    /\ GetEnter(t, op[t])
    /\ UNCHANGED <<wakeRes, op, started, cfgArg, held, out, panicMsg, fut, polls, worker,
                   orphans, wcRets, newErr, waitCall, selector, wakes, dpolls, afterDrive>>

\* ---- Proactor::with_config ----

\* line 39-40: Proactor(SysProactor::new(config.clone()).expect(..))
WithConfig(t) ==
    /\ \E config \in Configs, ok \in BOOLEAN :
        /\ StartOp(t, "with_config", config, NoFuture)
        /\ newErr' = [newErr EXCEPT ![t] = ~ok]
        /\ IF WithConfigExpect(ok)
           THEN /\ built' = built + 1
                /\ held' = [held EXCEPT ![t] = NewProactor(built + 1, WithConfigCfg(config))]
                /\ pc' = [pc EXCEPT ![t] = "wc_set"]
                /\ UNCHANGED panicMsg
           ELSE /\ Panic(t, InitPanic)
                /\ UNCHANGED <<built, held>>
    /\ out' = [out EXCEPT ![t] = 0]
    /\ wakeRes' = [wakeRes EXCEPT ![t] = "none"]
    /\ waitCall' = [waitCall EXCEPT ![t] = NoWaitCall]
    /\ selector' = [selector EXCEPT ![t] = "none"]
    /\ UNCHANGED <<cellState, PROACTOR, getBuilt, ret, worker, orphans, getRets, wcRets>>

\* line 41-44: PROACTOR.set(proactor).map_err(..).unwrap()
WithConfigSet(t) ==
    /\ pc[t] = "wc_set"
    /\ cellState # "running"
    /\ LET r == OnceCellSet(cellState, PROACTOR, held[t]) IN
        /\ PROACTOR' = r.value
        /\ cellState' = "complete"
        /\ IF SetUnwrap(r.ok)
           THEN /\ pc' = [pc EXCEPT ![t] = "wc_wait"]
                /\ UNCHANGED panicMsg
           ELSE Panic(t, "Proactor instance not being able to set.")
    /\ held' = [held EXCEPT ![t] = NoProactor]
    /\ UNCHANGED <<wakeRes, built, getBuilt, op, started, cfgArg, ret, out, fut, polls,
                   worker, orphans, getRets, wcRets, newErr, waitCall, selector, wakes,
                   dpolls, afterDrive>>

\* line 46: PROACTOR.wait()
WithConfigWait(t) ==
    /\ pc[t] = "wc_wait"
    /\ cellState = "complete"
    /\ ret' = [ret EXCEPT ![t] = PROACTOR]
    /\ wcRets' = wcRets \cup {<<PROACTOR, cfgArg[t]>>}
    /\ pc' = [pc EXCEPT ![t] = "idle"]
    /\ UNCHANGED <<wakeRes, cellVars, op, started, cfgArg, held, out, panicMsg, fut, polls,
                   worker, orphans, getRets, newErr, waitCall, selector, wakes, dpolls,
                   afterDrive>>

\* ---- Proactor::wake / wait / backend, called directly ----

\* line 51-53, on a reference the thread got from get() or with_config()
Wake(t) ==
    /\ ret[t] # NoProactor
    /\ StartOp(t, "wake", 0, NoFuture)
    /\ \E ok \in BOOLEAN :
        /\ wakeRes' = [wakeRes EXCEPT ![t] = IF ok THEN "ok" ELSE "err"]
        /\ IF WakeExpect(ok)
           THEN UNCHANGED <<pc, panicMsg>>
           ELSE Panic(t, "failed to wake thread")
    /\ out' = [out EXCEPT ![t] = 0]
    /\ newErr' = [newErr EXCEPT ![t] = FALSE]
    /\ waitCall' = [waitCall EXCEPT ![t] = NoWaitCall]
    /\ selector' = [selector EXCEPT ![t] = "none"]
    /\ UNCHANGED <<cellVars, held, ret, worker, orphans, getRets, wcRets>>

\* line 56-58; the backend answers Err (-1) or a count up to max_event_size
Wait(t) ==
    /\ ret[t] # NoProactor
    /\ StartOp(t, "wait", 0, NoFuture)
    /\ \E max_event_size \in 1..2, duration \in Timeouts :
        LET sent == WaitForward(max_event_size, duration) IN
        \E r \in (-1)..sent[1] :
            /\ waitCall' = [waitCall EXCEPT ![t] =
                    [max_event_size |-> max_event_size, duration |-> duration,
                     sent |-> sent, res |-> r]]
            /\ out' = [out EXCEPT ![t] = WaitResult(r)]
    /\ wakeRes' = [wakeRes EXCEPT ![t] = "none"]
    /\ newErr' = [newErr EXCEPT ![t] = FALSE]
    /\ selector' = [selector EXCEPT ![t] = "none"]
    /\ UNCHANGED <<cellVars, pc, held, ret, panicMsg, worker, orphans, getRets, wcRets>>

\* backend() going through the instance slot as get() does (not the program)
BackendViaGet(t) ==
    /\ StartOp(t, "backend", 0, NoFuture)
    /\ out' = [out EXCEPT ![t] = 0]
    /\ selector' = [selector EXCEPT ![t] = BACKEND]
    /\ IF CanInit(cellState)
       THEN /\ built' = built + 1
            /\ getBuilt' = getBuilt + 1
            /\ PROACTOR' = NewProactor(built + 1, DefaultQueueLen)
            /\ cellState' = "complete"
       ELSE UNCHANGED cellVars
    /\ wakeRes' = [wakeRes EXCEPT ![t] = "none"]
    /\ newErr' = [newErr EXCEPT ![t] = FALSE]
    /\ waitCall' = [waitCall EXCEPT ![t] = NoWaitCall]
    /\ UNCHANGED <<pc, held, ret, panicMsg, worker, orphans, getRets, wcRets>>

\* line 61-63: pub fn backend() -> IoBackend { BACKEND }
Backend(t) ==
    /\ StartOp(t, "backend", 0, NoFuture)
    /\ out' = [out EXCEPT ![t] = 0]
    /\ selector' = [selector EXCEPT ![t] = BACKEND]
    /\ wakeRes' = [wakeRes EXCEPT ![t] = "none"]
    /\ newErr' = [newErr EXCEPT ![t] = FALSE]
    /\ waitCall' = [waitCall EXCEPT ![t] = NoWaitCall]
    /\ UNCHANGED <<cellVars, pc, held, ret, panicMsg, worker, orphans, getRets, wcRets>>

\* ---- drive ----

\* line 79-80: drive(future) starts with Proactor::get()
Drive(t) ==
    /\ Cardinality({u \in Threads :
            \/ op[u] = "drive" /\ pc[u] \in {"get_init", "get_blocked", "d_spawn"}
            \/ worker[u].st \notin {"none", "cancelled"}}) + orphans < MaxDrives
    /\ \E f \in Futures : StartOp(t, "drive", 0, f)
    /\ GetEnter(t, "drive")
    /\ out' = [out EXCEPT ![t] = 0]
    /\ wakeRes' = [wakeRes EXCEPT ![t] = "none"]
    /\ newErr' = [newErr EXCEPT ![t] = FALSE]
    /\ waitCall' = [waitCall EXCEPT ![t] = NoWaitCall]
    /\ selector' = [selector EXCEPT ![t] = "none"]
    /\ UNCHANGED <<held, panicMsg, worker, orphans, wcRets>>

\* line 81-92: waker, context, spawn_blocking(worker closure).  The worker of
\* an earlier drive of this thread, unless it was cancelled before it began,
\* keeps looping in wait(1, None); it is counted and no longer followed.
DriveSpawn(t) ==
    /\ pc[t] = "d_spawn"
    /\ worker' = [worker EXCEPT ![t] = SpawnWorker(ret[t])]
    /\ orphans' = IF worker[t].st \in {"none", "cancelled"} THEN orphans ELSE orphans + 1
    /\ pc' = [pc EXCEPT ![t] = "d_poll"]
    /\ UNCHANGED <<wakeRes, cellVars, op, started, cfgArg, held, ret, out, panicMsg, fut,
                   polls, getRets, wcRets, newErr, waitCall, selector, wakes, dpolls,
                   afterDrive>>

\* The handle of the worker is dropped when drive is left: a closure that has
\* not begun may be cancelled or may still run later; the closure has no exit,
\* so once it has begun it cannot be stopped.
DropDriver(t, w) ==
    /\ IF w.st = "spawned"
       THEN \E st \in {"spawned", "cancelled"} :
               worker' = [worker EXCEPT ![t] = [w EXCEPT !.st = st]]
       ELSE UNCHANGED worker
    /\ UNCHANGED orphans

\* line 95-97: poll the future; return its value when ready
DrivePoll(t) ==
    /\ pc[t] = "d_poll"
    /\ polls[t] < MaxPolls
    /\ polls' = [polls EXCEPT ![t] = @ + 1]
    /\ LET r == PollFuture(fut[t], polls[t] + 1) IN
        IF LoopExit(r)
        THEN /\ out' = [out EXCEPT ![t] = r.val]
             /\ pc' = [pc EXCEPT ![t] = "idle"]
             /\ DropDriver(t, worker[t])
        ELSE /\ pc' = [pc EXCEPT ![t] = AfterPending(worker[t])]
             /\ UNCHANGED <<out, worker, orphans>>
    /\ UNCHANGED <<wakeRes, cellVars, op, started, cfgArg, held, ret, panicMsg, fut,
                   getRets, wcRets, newErr, waitCall, selector, wakes, dpolls, afterDrive>>

\* line 99: cx.waker().wake_by_ref()  ->  p.wake()
DriveWake(t) ==
    /\ pc[t] = "d_wake"
    /\ wakes[t] < MaxPolls
    /\ wakes' = [wakes EXCEPT ![t] = @ + 1]
    /\ UNCHANGED dpolls
    /\ \E ok \in BOOLEAN :
        /\ wakeRes' = [wakeRes EXCEPT ![t] = IF ok THEN "ok" ELSE "err"]
        /\ IF WakeExpect(ok)
           THEN /\ pc' = [pc EXCEPT ![t] = "d_driver"]
                /\ UNCHANGED <<panicMsg, worker, orphans>>
           ELSE /\ Panic(t, "failed to wake thread")
                /\ DropDriver(t, worker[t])
    /\ UNCHANGED <<cellVars, op, started, cfgArg, held, ret, out, fut, polls, getRets,
                   wcRets, newErr, waitCall, selector, afterDrive>>

\* line 103: let _ = driver.as_mut().poll(cx)
DriverPoll(t) ==
    /\ pc[t] = "d_driver"
    /\ dpolls[t] < MaxPolls
    /\ pc' = [pc EXCEPT ![t] = DriverPollNext(worker[t])]
    /\ dpolls' = [dpolls EXCEPT ![t] = @ + 1]
    /\ UNCHANGED wakes
    /\ UNCHANGED <<wakeRes, cellVars, op, started, cfgArg, held, ret, out, panicMsg, fut,
                   polls, worker, orphans, getRets, wcRets, newErr, waitCall, selector,
                   afterDrive>>

\* ---- the worker closure: loop { let _ = p.wait(1, None); } ----

\* line 89: the call of p.wait(1, None), which blocks in the backend
WorkerCallWait(t) ==
    /\ worker[t].st \in {"spawned", "loop_top"}
    /\ worker' = [worker EXCEPT ![t] = WorkerWait(@)]
    /\ UNCHANGED <<wakeRes, cellVars, pc, op, started, cfgArg, held, ret, out, panicMsg,
                   fut, polls, orphans, getRets, wcRets, newErr, waitCall, selector, wakes,
                   dpolls, afterDrive>>

\* line 89-90: the backend's wait returns Ok or Err; the result is dropped
WorkerWaitReturn(t) ==
    /\ worker[t].st = "in_wait"
    /\ \E outcome \in {"ok", "err"} :
        worker' = [worker EXCEPT ![t] =
                    [@ EXCEPT !.st = WorkerAfterWait(outcome), !.last = outcome]]
    /\ UNCHANGED <<wakeRes, cellVars, pc, op, started, cfgArg, held, ret, out, panicMsg,
                   fut, polls, orphans, getRets, wcRets, newErr, waitCall, selector, wakes,
                   dpolls, afterDrive>>

Next ==
    \/ \E t \in Threads : Get(t)
    \/ \E t \in Threads : GetInit(t)
    \/ \E t \in Threads : GetResume(t)
    \/ \E t \in Threads : WithConfig(t)
    \/ \E t \in Threads : WithConfigSet(t)
    \/ \E t \in Threads : WithConfigWait(t)
    \/ \E t \in Threads : Wake(t)
    \/ \E t \in Threads : Wait(t)
    \/ \E t \in Threads : Backend(t)
    \/ \E t \in Threads : Drive(t)
    \/ \E t \in Threads : DriveSpawn(t)
    \/ \E t \in Threads : DrivePoll(t)
    \/ \E t \in Threads : DriveWake(t)
    \/ \E t \in Threads : DriverPoll(t)
    \/ \E t \in Threads : WorkerCallWait(t)
    \/ \E t \in Threads : WorkerWaitReturn(t)

Spec == Init /\ [][Next]_vars

\* The calling thread of drive is running: its next step is eventually taken.
\* Nothing is assumed of the worker or of the backend.
FairSpec ==
    /\ Init
    /\ [][Next]_vars
    /\ \A t \in Threads :
        /\ WF_vars(DriveSpawn(t))
        /\ WF_vars(DrivePoll(t))
        /\ WF_vars(DriveWake(t))
        /\ WF_vars(DriverPoll(t))

TypeOK ==
    /\ cellState \in {"incomplete", "running", "complete"}
    /\ built \in 0..MaxOps
    /\ started \in 0..MaxOps
    /\ \A t \in Threads : polls[t] <= (IF fut[t].readyAt = Never THEN MaxPolls ELSE fut[t].readyAt)
    /\ \A t \in Threads : wakes[t] \in 0..polls[t] /\ dpolls[t] \in 0..polls[t]
    /\ \A t \in Threads : newErr[t] \in BOOLEAN /\ afterDrive[t] \in BOOLEAN
    /\ \A t \in Threads : selector[t] \in {"none", BACKEND}
    /\ \A t \in Threads : waitCall[t].res \in (-1)..2

SetPanic == "Proactor instance not being able to set."
WakePanic == "failed to wake thread"
DriveLoopPcs == {"d_poll", "d_wake", "d_driver"}

\* thread t takes the step of line 41-44 while an instance is installed
SetsOnInstalled(t) ==
    pc[t] = "wc_set" /\ cellState = "complete" /\ pc'[t] # pc[t]

\* thread t is in drive, past Proactor::get()
InDriveLoop(t) == pc[t] \in {"d_spawn"} \cup DriveLoopPcs

\* drive has returned on thread t and the thread has done nothing since
DriveReturned(t) == op[t] = "drive" /\ pc[t] = "idle"

\* the backend wait of thread t's worker returns in this step
WorkerWaitReturns(t) ==
    /\ worker[t].st = "in_wait" /\ worker'[t] # worker[t]
    /\ ~(pc[t] = "d_spawn" /\ pc'[t] # pc[t])

\* ---- C1 ----
\* C1 as stated: when an instance is already installed, with_config's set step
\* does not panic, goes on to return the installed instance, and leaves the
\* slot as it was.
C1_WithConfigOnInstalledReturns ==
    [][\A t \in Threads :
        SetsOnInstalled(t) => (pc'[t] = "wc_wait" /\ PROACTOR' = PROACTOR)]_vars

\* C1 amended: when an instance is already installed, with_config's set step
\* panics with "Proactor instance not being able to set."; the backend built
\* from config is dropped, the slot keeps the installed instance, and nothing
\* is returned to the caller.
C1_WithConfigOnInstalledPanics ==
    [][\A t \in Threads :
        SetsOnInstalled(t) =>
            /\ pc'[t] = "panicked"
            /\ panicMsg'[t] = SetPanic
            /\ held'[t] = NoProactor
            /\ PROACTOR' = PROACTOR
            /\ ret'[t] = ret[t]
            /\ wcRets' = wcRets]_vars

C1_Witness ==
    \E t \in Threads :
        /\ pc[t] = "panicked" /\ panicMsg[t] = SetPanic
        /\ PROACTOR # NoProactor /\ PROACTOR.id < built

\* ---- C2 ----
\* C2: once an instance is installed, no step of any operation changes the
\* installed instance (identity and configuration) or empties the slot.
C2_FirstWriterWins ==
    [][PROACTOR # NoProactor =>
        (PROACTOR' = PROACTOR /\ cellState = "complete" /\ cellState' = "complete")]_vars

\* get() installed the default instance, then with_config(queue_len 10) ran.
C2_Witness ==
    \E t \in Threads :
        /\ op[t] = "with_config" /\ cfgArg[t] = CustomQueueLen /\ pc[t] = "panicked"
        /\ panicMsg[t] = SetPanic
        /\ PROACTOR = NewProactor(1, DefaultQueueLen)
        /\ PROACTOR \in getRets

\* ---- C3 ----
\* C3: whenever with_config(c) has returned, the instance it returned is the
\* installed one and was built from c, and every instance get() has returned
\* is that same instance.
C3_ExplicitFirstWins ==
    \A r \in wcRets :
        /\ r[1] = PROACTOR
        /\ r[1].cfg = r[2]
        /\ \A g \in getRets : g = r[1]

C3_Witness ==
    /\ wcRets = {<<PROACTOR, CustomQueueLen>>}
    /\ \E t \in Threads : op[t] = "get" /\ pc[t] = "idle" /\ ret[t] = PROACTOR
    /\ getBuilt = 0

\* ---- C4 ----
\* C4: all references get() has ever returned are one and the same installed
\* instance, and a step in which get() constructs a backend starts from an
\* empty slot.
C4_SingletonUniqueness ==
    [][/\ \A p \in getRets' : p = PROACTOR' /\ p # NoProactor
       /\ \A p \in getRets' : \A q \in getRets' : p = q
       /\ getBuilt' # getBuilt => (PROACTOR = NoProactor /\ getBuilt = 0)]_vars

C4_Witness ==
    \E t \in Threads : \E u \in Threads :
        /\ t # u
        /\ op[t] = "get" /\ pc[t] = "idle"
        /\ op[u] = "get" /\ pc[u] = "idle"
        /\ ret[t] = ret[u] /\ ret[t] # NoProactor
        /\ getBuilt = 1

\* ---- C5 ----
\* C5: at most one thread at a time runs get()'s initializer, and only while
\* the slot is empty; get() constructs at most one backend that is installed;
\* every caller that has returned from get() holds the installed instance.
C5_SingleConstruction ==
    /\ Cardinality({t \in Threads : pc[t] = "get_init"}) <= 1
    /\ \A t \in Threads : pc[t] = "get_init" => (cellState = "running" /\ PROACTOR = NoProactor)
    /\ getBuilt <= 1
    /\ getRets \subseteq {PROACTOR}
    /\ getRets # {} => (PROACTOR # NoProactor /\ PROACTOR.id \in 1..built)
    /\ \A t \in Threads : (op[t] \in {"get", "drive"} /\ ret[t] # NoProactor) => ret[t] = PROACTOR

\* one caller has constructed and returned while a concurrent caller still waits
C5_Witness ==
    \E t \in Threads : \E u \in Threads :
        /\ op[t] = "get" /\ pc[t] = "idle" /\ ret[t] = PROACTOR
        /\ getBuilt = 1 /\ built = 1
        /\ op[u] = "get" /\ pc[u] = "get_blocked"

\* ---- C6 ----
\* C6: once drive has returned, the worker it launched makes no further
\* wait() call.
C6_WorkerStoppedOnReturn ==
    [][\A t \in Threads :
        DriveReturned(t) => ~(worker[t].st # "in_wait" /\ worker'[t].st = "in_wait")]_vars

\* ---- C7 ----
\* C7: drive leaves its loop by returning only in a poll step that reports
\* ready, with exactly the value of that poll; a not-ready poll goes on to the
\* wake callback; the future is never polled once it has reported ready.
C7_ReturnsOnlyReadyValue ==
    [][\A t \in Threads :
        /\ (pc[t] \in DriveLoopPcs /\ pc'[t] = "idle") =>
                /\ pc[t] = "d_poll"
                /\ polls'[t] = fut[t].readyAt
                /\ out'[t] = fut[t].value
        /\ (pc[t] = "d_poll" /\ ~PollFuture(fut[t], polls[t] + 1).ready /\ pc'[t] # pc[t]) =>
                (pc'[t] = "d_wake" /\ out'[t] = out[t])
        /\ (pc[t] \in DriveLoopPcs /\ polls'[t] # polls[t]) =>
                (~PollFuture(fut[t], polls[t]).ready /\ polls'[t] = polls[t] + 1)]_vars

C7_Witness ==
    \E t \in Threads :
        /\ DriveReturned(t)
        /\ fut[t].readyAt = 2 /\ polls[t] = 2
        /\ out[t] = fut[t].value /\ out[t] = 42

\* ---- C8 ----
\* C8 as stated: a drive that has entered its loop eventually returns the
\* computation's value after exactly readyAt polls.
C8_DriveEventuallyReturns ==
    \A t \in Threads :
        (pc[t] = "d_poll" /\ polls[t] = 0 /\ fut[t] # NeverReady) ~>
            (DriveReturned(t) /\ polls[t] = fut[t].readyAt /\ out[t] = fut[t].value)

\* C8 amended: no thread whose computation becomes ready stays in the drive
\* loop for ever (again and again, and so in the end, none is inside it),
\* whatever the worker does; and a
\* drive that has left its loop has either returned the computation's value
\* after exactly readyAt polls, or panicked before the readyAt-th poll because
\* wake() failed in the wake callback.
C8_DriveTerminates ==
    /\ []<>(\A t \in Threads : InDriveLoop(t) => fut[t] = NeverReady)
    /\ [](\A t \in Threads :
            (op[t] = "drive" /\ pc[t] \in {"idle", "panicked"} /\ polls[t] >= 1) =>
                \/ (DriveReturned(t) /\ polls[t] = fut[t].readyAt
                    /\ out[t] = fut[t].value)
                \/ (pc[t] = "panicked" /\ panicMsg[t] = WakePanic /\ wakeRes[t] = "err"
                    /\ ~PollFuture(fut[t], polls[t]).ready))

\* drive has returned after MaxPolls polls while its worker is blocked in wait
C8_Witness ==
    \E t \in Threads :
        /\ DriveReturned(t)
        /\ fut[t].readyAt = MaxPolls /\ polls[t] = MaxPolls
        /\ out[t] = fut[t].value
        /\ worker[t].st = "in_wait"

\* ---- C9 ----
\* C9: when the worker's wait() returns, failure included, the worker is back
\* at the top of its loop, whose only step is the next wait(); that step
\* changes nothing of the thread in drive; a drive that has returned has
\* returned the computation's value.
C9_WaitFailureSwallowed ==
    [][\A t \in Threads :
        /\ WorkerWaitReturns(t) =>
                /\ worker'[t].st = "loop_top"
                /\ pc'[t] = pc[t] /\ panicMsg'[t] = panicMsg[t]
                /\ out'[t] = out[t] /\ polls'[t] = polls[t]
        /\ (worker[t].st = "loop_top" /\ worker'[t] # worker[t]) =>
                worker'[t].st \in {"in_wait", "spawned"}
        /\ DriveReturned(t)' => out'[t] = fut'[t].value]_vars

\* the worker's wait has failed during a drive that went on to return
C9_Witness ==
    \E t \in Threads :
        /\ worker[t].last = "err" /\ worker[t].st = "loop_top"
        /\ DriveReturned(t) /\ polls[t] = 2 /\ out[t] = fut[t].value

\* ---- C10 ----
\* C10 as stated: after the wake callback of the drive loop, whatever the
\* backend's wake() answered, drive goes on to poll the worker handle and the
\* computation again.
C10_WakeFailureIgnored ==
    [][\A t \in Threads :
        (pc[t] = "d_wake" /\ pc'[t] # pc[t]) => pc'[t] = "d_driver"]_vars

\* C10 amended: a failure of the worker's wait() leaves the thread in drive
\* where it was; a failure of wake() in the wake callback of the drive loop
\* makes drive panic with "failed to wake thread" without returning a value; a
\* successful wake() lets the loop go on.
C10_OnlyWakeFailureAborts ==
    [][\A t \in Threads :
        /\ (pc[t] = "d_wake" /\ wakeRes'[t] = "err" /\ pc'[t] # pc[t]) =>
                (pc'[t] = "panicked" /\ panicMsg'[t] = WakePanic /\ out'[t] = out[t])
        /\ (pc[t] = "d_wake" /\ wakeRes'[t] = "ok" /\ pc'[t] # pc[t]) =>
                pc'[t] = "d_driver"
        /\ (pc[t] = "d_wake" /\ pc'[t] = pc[t]) => wakeRes'[t] = wakeRes[t]
        /\ WorkerWaitReturns(t) => pc'[t] = pc[t]]_vars

C10_Witness ==
    \E t \in Threads :
        /\ op[t] = "drive" /\ pc[t] = "panicked" /\ panicMsg[t] = WakePanic
        /\ polls[t] >= 1 /\ wakeRes[t] = "err"

\* everything thread u holds of its own
ThreadLocal(u) ==
    <<pc[u], op[u], cfgArg[u], held[u], ret[u], out[u], panicMsg[u], wakeRes[u],
      newErr[u], waitCall[u], selector[u], fut[u], polls[u], worker[u]>>

\* an operation named name starts on thread t in this step, no other thread moves
Starts(t, name) ==
    /\ pc[t] = "idle" /\ started' = started + 1 /\ op'[t] = name
    /\ \A u \in Threads \ {t} : ThreadLocal(u)' = ThreadLocal(u)

\* ---- C11 ----
\* C11 as stated: when an instance is installed and building the backend from
\* config fails, with_config does not panic.
C11_BuildFailureNotFatal ==
    [][\A t \in Threads :
        (Starts(t, "with_config") /\ cellState = "complete" /\ newErr'[t]) =>
            pc'[t] # "panicked"]_vars

\* C11 amended: when building the backend from config fails, with_config
\* panics with "cannot initialize IO backend" and returns nothing; an instance
\* that is installed stays installed, unchanged, and no backend is built.
C11_BuildFailurePanics ==
    [][\A t \in Threads :
        (Starts(t, "with_config") /\ newErr'[t]) =>
                /\ pc'[t] = "panicked" /\ panicMsg'[t] = InitPanic
                /\ PROACTOR' = PROACTOR /\ cellState' = cellState
                /\ built' = built /\ held'[t] = NoProactor
                /\ ret'[t] = ret[t] /\ wcRets' = wcRets]_vars

\* with_config failed to build its backend while an instance was installed
C11_Witness ==
    \E t \in Threads :
        /\ op[t] = "with_config" /\ pc[t] = "panicked" /\ panicMsg[t] = InitPanic
        /\ newErr[t]
        /\ PROACTOR # NoProactor /\ PROACTOR \in getRets

\* ---- C12 ----
\* C12: when the backend construction in get()'s initializer fails, get()
\* panics with "cannot initialize IO backend", returns no Proactor, and the
\* slot is empty and free for a later initializer afterwards.
C12_GetBuildFailureFatal ==
    [][\A t \in Threads :
        (pc[t] = "get_init" /\ newErr'[t] /\ pc'[t] # pc[t]) =>
            /\ pc'[t] = "panicked" /\ panicMsg'[t] = InitPanic
            /\ PROACTOR = NoProactor /\ PROACTOR' = NoProactor
            /\ cellState' = "incomplete"
            /\ built' = built /\ getBuilt' = getBuilt
            /\ ret'[t] = ret[t] /\ getRets' = getRets]_vars

C12_Witness ==
    \E t \in Threads :
        /\ op[t] = "get" /\ pc[t] = "panicked" /\ panicMsg[t] = InitPanic
        /\ newErr[t] /\ ret[t] = NoProactor
        /\ PROACTOR = NoProactor /\ cellState = "incomplete" /\ built = 0

\* ---- C13 ----
\* C13: a direct wait(max_events, timeout) hands both arguments unchanged to
\* the backend and returns the backend's result unchanged: an error comes back
\* as the value (the call neither panics nor turns it into a count), a count
\* comes back as that count.
C13_WaitPassesThrough ==
    \A t \in Threads :
        op[t] = "wait" =>
            /\ waitCall[t].sent = <<waitCall[t].max_event_size, waitCall[t].duration>>
            /\ out[t] = waitCall[t].res
            /\ pc[t] = "idle" /\ panicMsg[t] = "none"

\* a direct wait for up to two events with a timeout, whose backend call failed
C13_Witness ==
    \E t \in Threads :
        /\ op[t] = "wait" /\ waitCall[t].duration = "Some"
        /\ waitCall[t].max_event_size = 2 /\ waitCall[t].sent = <<2, "Some">>
        /\ waitCall[t].res = -1 /\ out[t] = -1

\* ---- C14 ----
\* C14: backend() returns the same compile-time selector on every call, and a
\* call neither builds nor installs a Proactor (an empty slot stays empty) nor
\* changes anything else: the slot, the references handed out, the caller's
\* reference and every worker are as before, and the call cannot panic.
C14_BackendPure ==
    /\ [](\A t \in Threads : op[t] = "backend" => selector[t] = BACKEND /\ pc[t] = "idle")
    /\ [][\A t \in Threads :
            Starts(t, "backend") =>
                /\ selector'[t] = BACKEND
                /\ UNCHANGED <<cellVars, getRets, wcRets, orphans>>
                /\ pc'[t] = "idle" /\ panicMsg'[t] = panicMsg[t]
                /\ ret'[t] = ret[t] /\ held'[t] = held[t]
                /\ worker'[t] = worker[t]]_vars

\* two calls of backend() have returned and the slot is still empty
C14_Witness ==
    /\ \E t \in Threads : op[t] = "backend" /\ selector[t] = BACKEND
    /\ started = 2 /\ built = 0 /\ getRets = {}
    /\ cellState = "incomplete" /\ PROACTOR = NoProactor
    /\ \A t \in Threads : pc[t] = "idle"

\* ---- C15 ----
\* C15 as stated: every invocation of the wake callback is followed by another
\* poll of the computation, so a drive that has left its loop has polled once
\* more than it has woken.
C15_EveryWakeFollowedByPoll ==
    \A t \in Threads :
        (op[t] = "drive" /\ pc[t] \in {"idle", "panicked"} /\ polls[t] >= 1) =>
            polls[t] = wakes[t] + 1

\* C15 amended: after every not-ready poll the loop invokes the wake callback
\* exactly once, whatever the worker has seen; if that wake succeeds it polls
\* the worker handle exactly once and then polls the computation again; if the
\* wake fails the drive panics there, without a worker poll or another poll.
C15_LoopOrder ==
    \A t \in Threads :
        op[t] = "drive" =>
            /\ pc[t] = "d_poll" => wakes[t] = polls[t] /\ dpolls[t] = polls[t]
            /\ pc[t] = "d_wake" => wakes[t] = polls[t] - 1 /\ dpolls[t] = polls[t] - 1
            /\ pc[t] = "d_driver" => wakes[t] = polls[t] /\ dpolls[t] = polls[t] - 1
            /\ pc[t] = "idle" => wakes[t] = polls[t] - 1 /\ dpolls[t] = polls[t] - 1
            /\ (pc[t] = "panicked" /\ polls[t] >= 1) =>
                    /\ wakes[t] = polls[t] /\ dpolls[t] = polls[t] - 1
                    /\ wakeRes[t] = "err"

\* a drive has gone round the loop once (poll, wake, worker poll, poll) and
\* returned, with a worker that had seen no event when the wake was made
C15_Witness ==
    \E t \in Threads :
        /\ DriveReturned(t) /\ polls[t] = 2 /\ wakes[t] = 1 /\ dpolls[t] = 1
        /\ wakeRes[t] = "ok" /\ worker[t].last = "none"

\* ---- C16 ----
\* C16: in a drive session every wait() is the worker's: the backend sees it
\* with max_events 1 and no timeout, the worker's loop has no exit (once
\* started it is calling wait or about to call it again), and the thread that
\* runs drive makes no wait() call of its own.
C16_OnlyWorkerWaits ==
    \A t \in Threads :
        /\ worker[t].st \in {"none", "spawned", "cancelled", "loop_top", "in_wait"}
        /\ worker[t].st = "in_wait" => worker[t].max_events = 1 /\ worker[t].timeout = "None"
        /\ op[t] = "drive" => waitCall[t] = NoWaitCall

\* the worker is in its second wait(1, None) while the foreground is in the loop
C16_Witness ==
    \E t \in Threads :
        /\ op[t] = "drive" /\ pc[t] = "d_driver" /\ polls[t] >= 1
        /\ worker[t].st = "loop_top" /\ worker[t].last = "ok"
        /\ worker[t].max_events = 1 /\ worker[t].timeout = "None"

\* ---- C17 ----
\* C17: a drive whose computation never reports ready never returns, whatever
\* its worker's waits return and however often it has woken the backend; the
\* foreground loop of such a drive is left in one way only, the panic of a
\* wake() that failed.
C17_NeverReadyNeverReturns ==
    \A t \in Threads :
        (op[t] = "drive" /\ fut[t] = NeverReady) =>
            /\ ~DriveReturned(t)
            /\ (pc[t] = "panicked" /\ polls[t] >= 1) =>
                    (panicMsg[t] = WakePanic /\ wakeRes[t] = "err")

\* a never-ready computation has been polled twice and is about to be polled
\* again, after a wait of the worker has failed
C17_Witness ==
    \E t \in Threads :
        /\ op[t] = "drive" /\ fut[t] = NeverReady
        /\ pc[t] = "d_poll" /\ polls[t] >= 2 /\ wakes[t] >= 2
        /\ worker[t].last = "err"

\* some drive has its reference from get()
DriveBound == \E u \in Threads : InDriveLoop(u) \/ worker[u].st # "none"

\* ---- C18 ----
\* C18 as stated: a with_config() called after a drive has started cannot make
\* its configuration the installed one.
C18_NoInstallAfterDriveStart ==
    [][\A t \in Threads :
        (pc[t] = "wc_set" /\ afterDrive[t] /\ pc'[t] # pc[t]) => PROACTOR' = PROACTOR]_vars

\* C18 amended: a drive that is past get() holds the installed instance, its
\* wake callback and its worker's waits use that instance, and the instance is
\* installed before the first poll; a drive that finds the slot empty either
\* installs a default-configured instance or panics in the initializer with
\* the slot left empty; and once some drive holds its reference, the installed
\* instance never changes and every with_config set step panics.
C18_DriveBindsInstalled ==
    /\ [](\A t \in Threads :
            /\ InDriveLoop(t) =>
                    /\ PROACTOR # NoProactor /\ ret[t] = PROACTOR
                    /\ pc[t] # "d_spawn" => worker[t].p = PROACTOR
            /\ worker[t].st # "none" => worker[t].p = PROACTOR
            /\ (op[t] = "drive" /\ polls[t] >= 1) => PROACTOR # NoProactor)
    /\ [][\A t \in Threads :
            (op[t] = "drive" /\ pc[t] = "get_init" /\ pc'[t] # pc[t]) =>
                \/ /\ pc'[t] = "d_spawn" /\ polls'[t] = 0
                   /\ PROACTOR'.cfg = DefaultQueueLen /\ ret'[t] = PROACTOR'
                \/ /\ pc'[t] = "panicked" /\ panicMsg'[t] = InitPanic
                   /\ PROACTOR' = NoProactor]_vars
    /\ [][DriveBound =>
            /\ PROACTOR' = PROACTOR
            /\ \A t \in Threads :
                (pc[t] = "wc_set" /\ pc'[t] # pc[t]) =>
                    (pc'[t] = "panicked" /\ panicMsg'[t] = SetPanic)]_vars

\* a drive that found the slot empty is in its loop on the default instance it
\* installed, and a with_config(queue_len 10) called after it has panicked
C18_Witness ==
    \E t, u \in Threads :
        /\ op[t] = "drive" /\ pc[t] \in DriveLoopPcs /\ polls[t] >= 1
        /\ PROACTOR = NewProactor(1, DefaultQueueLen) /\ ret[t] = PROACTOR
        /\ worker[t].p = PROACTOR /\ getBuilt = 1
        /\ op[u] = "with_config" /\ afterDrive[u] /\ cfgArg[u] = CustomQueueLen
        /\ pc[u] = "panicked" /\ panicMsg[u] = SetPanic

====
